---- MODULE Spec2Model ----
(***************************************************************************)
(* Firestore-backed response cache (createFirestoreCache): set, get,       *)
(* invalidate, deleteExpiredCacheEntry and the batched delete engine       *)
(* (deleteAll / deleteQueryBatch) they share.                              *)
(*                                                                         *)
(* The store is one Firestore collection: a function from document ids to  *)
(* documents.  Every await on the store is a point where other calls may   *)
(* run: a page query is answered in one step (queryGet), a write batch is  *)
(* committed in another (batchCommit), and the un-awaited ref.delete() of  *)
(* get is committed by the store at any later moment (deleteCommit).       *)
(*                                                                         *)
(* Modelled from the cache module as README and the tests describe it      *)
(* (expireAt: Date | null, optional collectionPath), whose text is lines   *)
(* 38-228 of docker-compose.yaml; src/cache.ts holds an earlier revision   *)
(* (expiredAt, no isFinite test, every query paged by document id).        *)
(***************************************************************************)
EXTENDS Integers, Sequences, FiniteSets, TLC

\* ------------------------------------------------------------------ bounds

\* Number of document ids (cache keys).  Ids are 1..NumKeys, standing for
\* strings in ascending FieldPath.documentId() order.
NumKeys == 3

\* Date.now() runs over 0..MaxTime (milliseconds).
MaxTime == 2

\* limit(500) of deleteQueryBatch, scaled down so that a result of NumKeys
\* documents spans more than one page.
PageSize == 2

\* chunk(..., 10) of invalidate, scaled down so that three distinct values
\* span more than one chunk.
ChunkSize == 2

Keys == 1..NumKeys

\* ------------------------------------------------------------------ values

\* id?: number | string of an entity record ({typename, id}).
NoId == [kind |-> "undefined", num |-> 0, str |-> ""]
NumId(n) == [kind |-> "number", num |-> n, str |-> ""]
StrId(s) == [kind |-> "string", num |-> 0, str |-> s]

Entity(typename, id) == [typename |-> typename, id |-> id]

\* JavaScript truthiness of `id` as tested by `if (id)` / `if (!id)`:
\* undefined, 0 and "" are falsy.
Truthy(id) == CASE id.kind = "undefined" -> FALSE
                [] id.kind = "number" -> id.num # 0
                [] OTHER -> id.str # ""

\* String(id) inside the template literal.
NumeralOf(n) == CASE n = 0 -> "0" [] n = 1 -> "1" [] n = 2 -> "2" [] OTHER -> "9"
stringOf(id) == IF id.kind = "number" THEN NumeralOf(id.num) ELSE id.str

defaultBuildEntityIdTypenameOnly(typename, id) == typename \o "#"

defaultBuildEntityId(typename, id) == typename \o "#" \o stringOf(id)

buildEntityIdColon(typename, id) == typename \o ":" \o stringOf(id)

\* const buildEntityId = params?.buildEntityId ?? defaultBuildEntityId, for
\* a cache created without the buildEntityId option.
buildEntityId(typename, id) == defaultBuildEntityId(typename, id)

\* ttl: a finite number of milliseconds, or Infinity.
Finite(ms) == [finite |-> TRUE, ms |-> ms]
Infinity == [finite |-> FALSE, ms |-> 0]
isFinite(ttl) == ttl.finite

\* Date | null of CacheEntry.expireAt.
NullDate == [null |-> TRUE, ms |-> 0]
Date(ms) == [null |-> FALSE, ms |-> ms]

\* Firestore Timestamp | null of CacheEntryFS.expireAt.
NullTimestamp == [null |-> TRUE, seconds |-> 0, nanoseconds |-> 0]
TimestampFromDate(d) == IF d.null THEN NullTimestamp ELSE [null |-> FALSE, seconds |-> d.ms \div 1000, nanoseconds |-> (d.ms % 1000) * 1000000]
TimestampToDate(t) == Date(t.seconds * 1000 + (t.nanoseconds \div 1000000))
TimestampLess(a, b) == a.seconds < b.seconds \/ (a.seconds = b.seconds /\ a.nanoseconds < b.nanoseconds)

\* ExecutionResult payloads and their JSON text.
Undefined == [undefined |-> TRUE]
Payloads == {[data |-> "a"], [data |-> "b"]}
JSONstringify(v) == "{\"data\":\"" \o v.data \o "\"}"
JSONparse(s) == CHOOSE v \in Payloads : JSONstringify(v) = s

\* new Set<string>() / Array.from(set): insertion order, no duplicates.
Range(s) == {s[i] : i \in 1..Len(s)}
SetAddAlways(s, x) == Append(s, x)

SetAdd(s, x) == IF x \in Range(s) THEN s ELSE Append(s, x)

chunkFirstOnly(array, size) == IF Len(array) = 0 THEN <<>> ELSE IF Len(array) <= size THEN <<array>> ELSE <<SubSeq(array, 1, size)>>

RECURSIVE chunkOversize(_, _)
chunkOversize(array, size) == IF Len(array) = 0 THEN <<>> ELSE IF Len(array) <= size + 1 THEN <<array>> ELSE <<SubSeq(array, 1, size + 1)>> \o chunkOversize(SubSeq(array, size + 2, Len(array)), size)

\* lodash.chunk(array, size)
RECURSIVE chunk(_, _)
chunk(array, size) == IF Len(array) = 0 THEN <<>> ELSE IF Len(array) <= size THEN <<array>> ELSE <<SubSeq(array, 1, size)>> \o chunk(SubSeq(array, size + 1, Len(array)), size)

\* ------------------------------------------------------------------ documents

NoDoc == [exists |-> FALSE]

\* converter.toFirestore and the SDK's encoding of Date as Timestamp.
toFirestore(entry) == [exists |-> TRUE, payload |-> entry.payload, expireAt |-> TimestampFromDate(entry.expireAt), typenames |-> entry.typenames, entityIds |-> entry.entityIds]

\* converter.fromFirestore
fromFirestore(doc) == [payload |-> doc.payload, expireAt |-> IF doc.expireAt.null THEN NullDate ELSE TimestampToDate(doc.expireAt), typenames |-> doc.typenames, entityIds |-> doc.entityIds]

\* The loop of set over `entities`: every typename is added, a token only
\* for a truthy id.
RECURSIVE setIndex(_, _, _)
setIndex(entities, typenames, entityIds) == IF entities = <<>> THEN [typenames |-> typenames, entityIds |-> entityIds] ELSE LET e == Head(entities) IN setIndex(Tail(entities), SetAdd(typenames, e.typename), IF Truthy(e.id) THEN SetAdd(entityIds, buildEntityId(e.typename, e.id)) ELSE entityIds)

\* expireAt: isFinite(ttl) ? new Date(Date.now() + ttl) : null
setExpireAt(ttl, t) == IF isFinite(ttl) THEN Date(t + ttl.ms) ELSE NullDate

\* const entry: CacheEntry = {...} of set
setEntry(data, entities, ttl, t) == LET ix == setIndex(entities, <<>>, <<>>) IN [payload |-> JSONstringify(data), expireAt |-> setExpireAt(ttl, t), typenames |-> ix.typenames, entityIds |-> ix.entityIds]

\* The loop of invalidate over `entities`: a falsy id adds the typename; a
\* truthy id adds a token unless the typename has been added before it.
RECURSIVE invalidateIndexWithoutTypenames(_, _, _)
invalidateIndexWithoutTypenames(entities, typenames, entityIds) == IF entities = <<>> THEN [typenames |-> typenames, entityIds |-> entityIds] ELSE LET e == Head(entities) IN invalidateIndexWithoutTypenames(Tail(entities), typenames, IF Truthy(e.id) THEN SetAdd(entityIds, buildEntityId(e.typename, e.id)) ELSE entityIds)

RECURSIVE invalidateIndex(_, _, _)
invalidateIndex(entities, typenames, entityIds) == IF entities = <<>> THEN [typenames |-> typenames, entityIds |-> entityIds] ELSE LET e == Head(entities) tn == IF ~Truthy(e.id) THEN SetAdd(typenames, e.typename) ELSE typenames IN invalidateIndex(Tail(entities), tn, IF Truthy(e.id) /\ e.typename \notin Range(tn) THEN SetAdd(entityIds, buildEntityId(e.typename, e.id)) ELSE entityIds)

\* ------------------------------------------------------------------ collections

\* collectionPath?: string of FirestoreCacheParameters.
NoCollectionPath == [given |-> FALSE, path |-> ""]
CollectionPath(path) == [given |-> TRUE, path |-> path]

defaultCollectionPath == "responseCache"

collectionPathDefaultOnly(params) == defaultCollectionPath

\* const collectionPath = params.collectionPath ?? defaultCollectionPath
collectionPath(params) == IF params.collectionPath.given THEN params.collectionPath.path ELSE defaultCollectionPath

\* The collections of the database: the default one, another top-level one
\* and a subcollection whose last segment is the default name.
CollectionPaths == {defaultCollectionPath, "_responseCache_", "internal/cache/responseCache"}

\* The parameters the cache instances were created with.
Caches == {[collectionPath |-> NoCollectionPath], [collectionPath |-> CollectionPath("_responseCache_")], [collectionPath |-> CollectionPath("internal/cache/responseCache")]}

\* ------------------------------------------------------------------ state

VARIABLES store, now, deleting, ret, lastSet, call, interfered, db, cache

vars == <<store, now, deleting, ret, lastSet, call, interfered, db, cache>>

\* store      the collection: document id -> document (NoDoc when absent)
\* now        Date.now()
\* deleting   ids whose ref.delete() was issued by get and is not yet committed
\* ret        what get returned, when the step just taken was a get
\* lastSet    per id, the data and the entities of the latest set on it and the
\*            instant its ttl elapses; forgotten when an invalidate or a sweep
\*            deletes the entry
\* call       the invalidate / deleteExpiredCacheEntry call in progress, or the
\*            one that has just settled (the next set, get or eviction clears it)
\* interfered whether a set, get or eviction ran while `call` was in progress
\* db         the database seen by several cache instances: collection path ->
\*            document id -> document
\* cache      the parameters of the cache instance that took the last step on db

NoRet == [op |-> "none", id |-> 0, value |-> Undefined, evict |-> FALSE]
NeverSet == [called |-> FALSE, data |-> Undefined, entities |-> <<>>, elapses |-> NullDate]

NoQuery == [field |-> "none", values |-> <<>>, before |-> NullTimestamp]
NoCursor == [defined |-> FALSE, id |-> 0, date |-> NullDate]
IdleCall == [op |-> "none", pc |-> "idle", status |-> "none", entities |-> <<>>, at |-> 0, typenames |-> <<>>, entityIds |-> <<>>, query |-> NoQuery, after |-> NoCursor, chained |-> FALSE, snapshot |-> <<>>, deleted |-> {}, failed |-> FALSE, rerun |-> "no"]

\* A deleteQueryBatch of the call is waiting on the store.
Running == call.pc \in {"get", "commit"}

Init == /\ store = [k \in Keys |-> NoDoc]
        /\ now = 0
        /\ deleting = {}
        /\ ret = NoRet
        /\ lastSet = [k \in Keys |-> NeverSet]
        /\ call = IdleCall
        /\ interfered = FALSE
        /\ db = [p \in CollectionPaths |-> [k \in Keys |-> NoDoc]]
        /\ cache = [collectionPath |-> NoCollectionPath]

\* ------------------------------------------------------------------ Cache Store

\* async set(id, data, entities, ttl): build the entry, await ref.set(entry).
set(id, data, entities, ttl) == /\ store' = [store EXCEPT ![id] = toFirestore(setEntry(data, entities, ttl, now))]
                                /\ lastSet' = [lastSet EXCEPT ![id] = [called |-> TRUE, data |-> data, entities |-> entities, elapses |-> IF ttl.finite THEN Date(now + ttl.ms) ELSE NullDate]]
                                /\ ret' = NoRet
                                /\ call' = IF Running THEN call ELSE IdleCall
                                /\ interfered' = Running
                                /\ UNCHANGED <<now, deleting, db, cache>>

getExpiredStrict(expireAt, t) == ~expireAt.null /\ expireAt.ms < t

\* expireAt && expireAt.getTime() <= Date.now()
getExpired(expireAt, t) == ~expireAt.null /\ expireAt.ms <= t

getDeletesOnMiss(id) == LET snapshot == store[id] entry == fromFirestore(snapshot) expired == snapshot.exists /\ getExpired(entry.expireAt, now) IN
                        /\ ret' = [op |-> "get", id |-> id, value |-> IF snapshot.exists /\ ~expired THEN JSONparse(entry.payload) ELSE Undefined, evict |-> expired]
                        /\ deleting' = IF expired \/ ~snapshot.exists THEN deleting \cup {id} ELSE deleting
                        /\ call' = IF Running THEN call ELSE IdleCall
                        /\ interfered' = Running
                        /\ UNCHANGED <<store, now, lastSet, db, cache>>

getEvictsEveryExpired(id) == LET snapshot == store[id] entry == fromFirestore(snapshot) expired == snapshot.exists /\ getExpired(entry.expireAt, now) IN
                             /\ ret' = [op |-> "get", id |-> id, value |-> IF snapshot.exists /\ ~expired THEN JSONparse(entry.payload) ELSE Undefined, evict |-> expired]
                             /\ deleting' = IF expired THEN deleting \cup {k \in Keys : store[k].exists /\ getExpired(fromFirestore(store[k]).expireAt, now)} ELSE deleting
                             /\ call' = IF Running THEN call ELSE IdleCall
                             /\ interfered' = Running
                             /\ UNCHANGED <<store, now, lastSet, db, cache>>

\* async get(id): read the document; a miss when absent; when expired issue
\* ref.delete() without awaiting it and return a miss; else the parsed payload.
get(id) == LET snapshot == store[id] entry == fromFirestore(snapshot) expired == snapshot.exists /\ getExpired(entry.expireAt, now) IN
           /\ ret' = [op |-> "get", id |-> id, value |-> IF snapshot.exists /\ ~expired THEN JSONparse(entry.payload) ELSE Undefined, evict |-> expired]
           /\ deleting' = IF expired THEN deleting \cup {id} ELSE deleting
           /\ call' = IF Running THEN call ELSE IdleCall
           /\ interfered' = Running
           /\ UNCHANGED <<store, now, lastSet, db, cache>>

\* The store commits a ref.delete() issued by get.
deleteCommit(id) == /\ id \in deleting
                    /\ deleting' = deleting \ {id}
                    /\ store' = [store EXCEPT ![id] = NoDoc]
                    /\ call' = IF Running THEN call ELSE IdleCall
                    /\ interfered' = Running
                    /\ ret' = NoRet
                    /\ UNCHANGED <<now, lastSet, db, cache>>

\* Time passes.
Tick == /\ now < MaxTime
        /\ now' = now + 1
        /\ ret' = NoRet
        /\ UNCHANGED <<store, deleting, lastSet, call, interfered, db, cache>>

\* ------------------------------------------------------------------ Firestore queries

MatchesUpToBound(doc, query) == /\ doc.exists
                                /\ CASE query.field = "typenames" -> Range(doc.typenames) \cap Range(query.values) # {}
                                     [] query.field = "entityIds" -> Range(doc.entityIds) \cap Range(query.values) # {}
                                     [] query.field = "expireAt" -> ~doc.expireAt.null /\ ~TimestampLess(query.before, doc.expireAt)
                                     [] OTHER -> FALSE

\* where(field, 'array-contains-any', values) / where('expireAt', '<', date):
\* a range filter matches only values of the operand's type, so a null
\* expireAt never matches.
Matches(doc, query) == /\ doc.exists
                       /\ CASE query.field = "typenames" -> Range(doc.typenames) \cap Range(query.values) # {}
                            [] query.field = "entityIds" -> Range(doc.entityIds) \cap Range(query.values) # {}
                            [] query.field = "expireAt" -> ~doc.expireAt.null /\ TimestampLess(doc.expireAt, query.before)
                            [] OTHER -> FALSE

\* orderBy(FieldPath.documentId(), 'asc') for the membership queries;
\* orderBy('expireAt', 'asc') with the implicit documentId tiebreak for the sweep.
Precedes(j, k, query) == IF query.field = "expireAt" THEN TimestampLess(store[j].expireAt, store[k].expireAt) \/ (store[j].expireAt = store[k].expireAt /\ j < k) ELSE j < k

startAfterBackwards(k, query, after) == IF query.field = "expireAt" THEN TimestampLess(TimestampFromDate(after.date), store[k].expireAt) ELSE k < after.id

\* startAfter(after): the cursor holds a value of the first orderBy field
\* only, so every document whose field equals it is skipped.
startAfter(k, query, after) == IF query.field = "expireAt" THEN TimestampLess(TimestampFromDate(after.date), store[k].expireAt) ELSE k > after.id

\* orderBy: the documents `ids` in the order of the query; the i-th is the
\* one that exactly i - 1 of the others precede.
Ordered(ids, query) == [i \in 1..Cardinality(ids) |-> CHOOSE k \in ids : Cardinality({j \in ids : Precedes(j, k, query)}) = i - 1]

limitNone(docs, n) == docs

\* query.limit(n)
limit(docs, n) == IF Len(docs) <= n THEN docs ELSE SubSeq(docs, 1, n)

queryGetDocsNoCursor(query, after) == LET ids == {k \in Keys : Matches(store[k], query)} IN CHOOSE snapshot \in {[i \in 1..Len(docs) |-> [id |-> docs[i], data |-> fromFirestore(store[docs[i]])]] : docs \in {limit(Ordered(ids, query), PageSize)}} : TRUE

\* const q = query.limit(500); (after ? q.startAfter(after) : q).get()
\* Each element is a QueryDocumentSnapshot: the id and the converted data.
queryGetDocs(query, after) == LET ids == {k \in Keys : Matches(store[k], query) /\ (after.defined => startAfter(k, query, after))} IN CHOOSE snapshot \in {[i \in 1..Len(docs) |-> [id |-> docs[i], data |-> fromFirestore(store[docs[i]])]] : docs \in {limit(Ordered(ids, query), PageSize)}} : TRUE

\* afterFunc: s => s.id for invalidate, s => s.data()?.expireAt for the sweep.
afterFunc(op, s) == IF op = "invalidate" THEN [defined |-> TRUE, id |-> s.id, date |-> NullDate] ELSE [defined |-> ~s.data.expireAt.null, id |-> 0, date |-> s.data.expireAt]

\* ------------------------------------------------------------------ Invalidator, Sweeper, Batched Delete Engine

nextChunkTokensFirst(c) == IF c.entityIds # <<>> THEN [c EXCEPT !.pc = "get", !.query = [field |-> "entityIds", values |-> Head(c.entityIds), before |-> NullTimestamp], !.entityIds = Tail(c.entityIds), !.after = NoCursor, !.chained = TRUE, !.snapshot = <<>>]
                           ELSE IF c.typenames # <<>> THEN [c EXCEPT !.pc = "get", !.query = [field |-> "typenames", values |-> Head(c.typenames), before |-> NullTimestamp], !.typenames = Tail(c.typenames), !.after = NoCursor, !.chained = TRUE, !.snapshot = <<>>]
                           ELSE [c EXCEPT !.pc = "settled", !.status = "resolved", !.query = NoQuery, !.after = NoCursor, !.chained = FALSE, !.snapshot = <<>>]

\* The reduce chains of invalidate: the next typename chunk, then the next
\* entity chunk, each handed to deleteAll; the call resolves after the last.
nextChunk(c) == IF c.typenames # <<>> THEN [c EXCEPT !.pc = "get", !.query = [field |-> "typenames", values |-> Head(c.typenames), before |-> NullTimestamp], !.typenames = Tail(c.typenames), !.after = NoCursor, !.chained = TRUE, !.snapshot = <<>>]
                ELSE IF c.entityIds # <<>> THEN [c EXCEPT !.pc = "get", !.query = [field |-> "entityIds", values |-> Head(c.entityIds), before |-> NullTimestamp], !.entityIds = Tail(c.entityIds), !.after = NoCursor, !.chained = TRUE, !.snapshot = <<>>]
                ELSE [c EXCEPT !.pc = "settled", !.status = "resolved", !.query = NoQuery, !.after = NoCursor, !.chained = FALSE, !.snapshot = <<>>]

\* async invalidate(entities)
invalidate(entities) == /\ ~Running
                        /\ LET ix == invalidateIndex(entities, <<>>, <<>>) IN call' = nextChunk([IdleCall EXCEPT !.op = "invalidate", !.status = "pending", !.entities = entities, !.at = now, !.typenames = chunk(ix.typenames, ChunkSize), !.entityIds = chunk(ix.entityIds, ChunkSize)])
                        /\ interfered' = FALSE
                        /\ ret' = NoRet
                        /\ UNCHANGED <<store, now, deleting, lastSet, db, cache>>

\* async deleteExpiredCacheEntry()
deleteExpiredCacheEntry == /\ ~Running
                           /\ call' = [IdleCall EXCEPT !.op = "sweep", !.status = "pending", !.at = now, !.pc = "get", !.query = [field |-> "expireAt", values |-> <<>>, before |-> TimestampFromDate(Date(now))], !.chained = TRUE]
                           /\ interfered' = FALSE
                           /\ ret' = NoRet
                           /\ UNCHANGED <<store, now, deleting, lastSet, db, cache>>

\* deleteQueryBatch up to its first await: the store answers the page query.
\* An empty page calls resolve(): deleteAll settles and the chain moves on.
queryGet == /\ call.pc = "get"
            /\ LET snapshot == queryGetDocs(call.query, call.after) IN call' = IF Len(snapshot) = 0 THEN nextChunk(call) ELSE [call EXCEPT !.pc = "commit", !.snapshot = snapshot]
            /\ ret' = NoRet
            /\ UNCHANGED <<store, now, deleting, lastSet, interfered, db, cache>>

\* deleteQueryBatch from batch.commit() on: the page is deleted as one batch,
\* and process.nextTick starts the next deleteQueryBatch, whose promise
\* nobody holds.
batchCommit == /\ call.pc = "commit"
               /\ store' = [k \in Keys |-> IF k \in {call.snapshot[i].id : i \in 1..Len(call.snapshot)} THEN NoDoc ELSE store[k]]
               /\ call' = [call EXCEPT !.pc = "get", !.after = afterFunc(call.op, call.snapshot[Len(call.snapshot)]), !.chained = FALSE, !.snapshot = <<>>, !.deleted = call.deleted \cup {k \in Keys : store[k].exists /\ k \in {call.snapshot[i].id : i \in 1..Len(call.snapshot)}}]
               /\ lastSet' = [k \in Keys |-> IF k \in {call.snapshot[i].id : i \in 1..Len(call.snapshot)} THEN NeverSet ELSE lastSet[k]]
               /\ ret' = NoRet
               /\ UNCHANGED <<now, deleting, interfered, db, cache>>

storeErrorSwallowed == /\ Running
                       /\ call' = IF call.chained THEN nextChunk([call EXCEPT !.failed = TRUE]) ELSE [call EXCEPT !.pc = "lost", !.snapshot = <<>>, !.failed = TRUE]
                       /\ ret' = NoRet
                       /\ UNCHANGED <<store, now, deleting, lastSet, interfered, db, cache>>

\* The store fails the page query or the batch commit.  Only the first
\* deleteQueryBatch of a deleteAll is followed by .catch(reject): its failure
\* rejects the call; a failure of a later one is an unhandled rejection and
\* the promise of deleteAll (and so the call) never settles.
storeError == /\ Running
              /\ call' = IF call.chained THEN [call EXCEPT !.pc = "settled", !.status = "rejected", !.snapshot = <<>>, !.failed = TRUE] ELSE [call EXCEPT !.pc = "lost", !.snapshot = <<>>, !.failed = TRUE]
              /\ ret' = NoRet
              /\ UNCHANGED <<store, now, deleting, lastSet, interfered, db, cache>>

\* The caller invokes the operation that has just ended once more, with the
\* same arguments and at the same time, nothing having touched the store
\* since the first invocation: after a complete run ("repeated"), or after a
\* run that an error stopped ("resumed").
reinvoke == /\ call.op \in {"invalidate", "sweep"}
            /\ ~Running
            /\ ~interfered
            /\ now = call.at
            /\ LET ix == invalidateIndex(call.entities, <<>>, <<>>)
                   again == IF call.status = "resolved" THEN "repeated" ELSE "resumed"
               IN call' = IF call.op = "invalidate"
                          THEN nextChunk([IdleCall EXCEPT !.op = "invalidate", !.status = "pending", !.entities = call.entities, !.at = now, !.typenames = chunk(ix.typenames, ChunkSize), !.entityIds = chunk(ix.entityIds, ChunkSize), !.rerun = again])
                          ELSE [IdleCall EXCEPT !.op = "sweep", !.status = "pending", !.at = now, !.pc = "get", !.query = [field |-> "expireAt", values |-> <<>>, before |-> TimestampFromDate(Date(now))], !.chained = TRUE, !.rerun = again]
            /\ interfered' = FALSE
            /\ ret' = NoRet
            /\ UNCHANGED <<store, now, deleting, lastSet, db, cache>>

\* ------------------------------------------------------------------ cache instances on one database

\* The operations of a cache created with `params`, each on
\* collection = db.collection(collectionPath): the document references are
\* collection.doc(id), the queries are collection.where(...), and a batch
\* deletes the references its page holds.

\* set of the instance: collection.doc(id).set(entry)
cacheSet(params, id, data, entities, ttl) == /\ db' = [db EXCEPT ![collectionPath(params)][id] = toFirestore(setEntry(data, entities, ttl, now))]
                                             /\ cache' = params
                                             /\ ret' = NoRet
                                             /\ UNCHANGED <<store, now, deleting, lastSet, call, interfered>>

\* get of the instance, with the eviction delete it issues committed at once.
cacheGet(params, id) == LET snapshot == db[collectionPath(params)][id] entry == fromFirestore(snapshot) expired == snapshot.exists /\ getExpired(entry.expireAt, now) IN
                        /\ ret' = [op |-> "get", id |-> id, value |-> IF snapshot.exists /\ ~expired THEN JSONparse(entry.payload) ELSE Undefined, evict |-> expired]
                        /\ db' = IF expired THEN [db EXCEPT ![collectionPath(params)][id] = NoDoc] ELSE db
                        /\ cache' = params
                        /\ UNCHANGED <<store, now, deleting, lastSet, call, interfered>>

\* One deleteQueryBatch of the instance: a page of at most PageSize documents
\* of the collection that match the query, deleted as one batch.
cacheDeleteQueryBatch(params, query) == /\ \E page \in SUBSET {k \in Keys : Matches(db[collectionPath(params)][k], query)} :
                                             /\ page # {}
                                             /\ Cardinality(page) <= PageSize
                                             /\ db' = [db EXCEPT ![collectionPath(params)] = [k \in Keys |-> IF k \in page THEN NoDoc ELSE db[collectionPath(params)][k]]]
                                        /\ cache' = params
                                        /\ ret' = NoRet
                                        /\ UNCHANGED <<store, now, deleting, lastSet, call, interfered>>

\* A page delete of invalidate(entities) of the instance: the query is over
\* one chunk of the typenames or of the tokens.
cacheInvalidate(params, entities) == LET ix == invalidateIndex(entities, <<>>, <<>>) IN
                                     \/ \E c \in Range(chunk(ix.typenames, ChunkSize)) : cacheDeleteQueryBatch(params, [field |-> "typenames", values |-> c, before |-> NullTimestamp])
                                     \/ \E c \in Range(chunk(ix.entityIds, ChunkSize)) : cacheDeleteQueryBatch(params, [field |-> "entityIds", values |-> c, before |-> NullTimestamp])

\* A page delete of deleteExpiredCacheEntry() of the instance.
cacheDeleteExpiredCacheEntry(params) == cacheDeleteQueryBatch(params, [field |-> "expireAt", values |-> <<>>, before |-> TimestampFromDate(Date(now))])

\* ------------------------------------------------------------------ inputs

User1 == <<Entity("User", NumId(1))>>
CommentOnly == <<Entity("Comment", NoId)>>
PostAndUser == <<Entity("Post", StrId("1")), Entity("User", StrId("0#0"))>>

\* Entity lists handed to set.
EntityLists == {User1, CommentOnly, PostAndUser}

\* Selector lists handed to invalidate.
SelectorLists == { <<Entity("User", NoId)>>,
                   <<Entity("User", NumId(1))>>,
                   <<Entity("User", NumId(0))>>,
                   <<Entity("User#0", NumId(0))>>,
                   <<Entity("User", NoId), Entity("Comment", NoId), Entity("Post", NoId)>>,
                   <<Entity("User", NumId(1)), Entity("Comment", StrId("1")), Entity("Post", StrId("1"))>>,
                   <<Entity("Comment", NoId), Entity("Post", StrId("1"))>> }

Ttls == {Finite(1), Finite(2), Infinity}

\* ------------------------------------------------------------------ specifications

\* The Cache Store alone: set, get, lazy eviction, time.
StoreKeys == {1, 2}
StoreSet == \E id \in StoreKeys, data \in Payloads, ttl \in Ttls : set(id, data, User1, ttl)
StoreGet == \E id \in StoreKeys : get(id)
StoreDeleteCommit == \E id \in StoreKeys : deleteCommit(id)
StoreNext == StoreSet \/ StoreGet \/ StoreDeleteCommit \/ Tick
SpecStore == Init /\ [][StoreNext]_vars

\* Each eviction delete issued by get is a request the store goes on to commit.
FairSpecStore == SpecStore /\ \A id \in StoreKeys : WF_vars(deleteCommit(id))

\* The Invalidator over a store filled by set.
InvSet == \E id \in Keys, entities \in EntityLists : set(id, [data |-> "a"], entities, Infinity)
InvCall == \E entities \in SelectorLists : invalidate(entities)
InvNext == InvSet \/ InvCall \/ queryGet \/ batchCommit \/ storeError
SpecInvalidate == Init /\ [][InvNext]_vars

\* The Expiry Sweeper over a store filled by set.
SweepTtls == {Finite(1), Infinity}
SweepSet == \E id \in Keys, ttl \in SweepTtls : set(id, [data |-> "a"], User1, ttl)
SweepNext == SweepSet \/ Tick \/ deleteExpiredCacheEntry \/ queryGet \/ batchCommit \/ storeError
SpecSweep == Init /\ [][SweepNext]_vars

\* The Invalidator called with lists that hold a broad selector of a typename
\* next to a narrow one of the same typename, in either order.
SubsumeLists == { <<Entity("User", NoId)>>,
                  <<Entity("User", NoId), Entity("User", NumId(1))>>,
                  <<Entity("User", NumId(1)), Entity("User", NoId)>>,
                  <<Entity("User#0", NoId)>>,
                  <<Entity("User#0", NoId), Entity("User#0", StrId("0"))>>,
                  <<Entity("User#0", StrId("0")), Entity("User#0", NoId)>> }
SubsumeCall == \E entities \in SubsumeLists : invalidate(entities)
SubsumeNext == InvSet \/ SubsumeCall \/ queryGet \/ batchCommit
SpecSubsume == Init /\ [][SubsumeNext]_vars

\* Cache instances created with different collection paths on one database.
ColKeys == {1, 2}
ColLists == {<<Entity("User", NoId)>>, <<Entity("User", NumId(1))>>}
ColSet == \E params \in Caches, id \in ColKeys : cacheSet(params, id, [data |-> "a"], User1, Finite(1))
ColGet == \E params \in Caches, id \in ColKeys : cacheGet(params, id)
ColInvalidate == \E params \in Caches, entities \in ColLists : cacheInvalidate(params, entities)
ColSweep == \E params \in Caches : cacheDeleteExpiredCacheEntry(params)
ColNext == ColSet \/ ColGet \/ ColInvalidate \/ ColSweep \/ Tick
SpecCollections == Init /\ [][ColNext]_vars

\* The entity identifier builder, applied by set to one entity and by
\* invalidate to two selectors; "User#0" is a typename that holds the
\* separator.
BuilderTypenames == {"User", "Post", "User#0"}
BuilderIds == {NumId(1), StrId("1"), StrId("0"), StrId("0#0")}
BuilderEntities == {Entity(typename, id) : typename \in BuilderTypenames, id \in BuilderIds}
BuilderSet == \E e \in BuilderEntities : set(1, [data |-> "a"], <<e>>, Infinity)
BuilderCall == \E e1 \in BuilderEntities, e2 \in BuilderEntities : invalidate(<<e1, e2>>)
BuilderNext == BuilderSet \/ BuilderCall \/ queryGet \/ batchCommit
SpecBuilder == Init /\ [][BuilderNext]_vars

\* set alone, over every list of up to MaxEntities entities: with and
\* without an id, with the ids 0 and 1, with 1 as a number and as a string,
\* and with repeated elements.
MaxEntities == 3
IndexEntities == {Entity("User", NoId), Entity("User", NumId(0)), Entity("User", NumId(1)), Entity("User", StrId("1")), Entity("Comment", NoId), Entity("Post", StrId("1"))}
IndexLists == UNION {[1..n -> IndexEntities] : n \in 0..MaxEntities}
IndexSet == \E entities \in IndexLists : set(1, [data |-> "a"], entities, Infinity)
IndexNext == IndexSet
SpecIndex == Init /\ [][IndexNext]_vars

\* The Batched Delete Engine with no concurrent writer and no store error:
\* set runs only while no call is in progress.
EngineLists == {<<Entity("User", NoId)>>, <<Entity("User", NumId(1))>>}
EngineSet == ~Running /\ \E id \in Keys, ttl \in SweepTtls : set(id, [data |-> "a"], User1, ttl)
EngineCall == \E entities \in EngineLists : invalidate(entities)
EngineNext == EngineSet \/ Tick \/ EngineCall \/ deleteExpiredCacheEntry \/ queryGet \/ batchCommit
SpecEngine == Init /\ [][EngineNext]_vars

\* The store answers every page query and commits every batch, and the
\* callback handed to process.nextTick runs.
FairSpecEngine == SpecEngine /\ WF_vars(queryGet) /\ WF_vars(batchCommit)

\* Resuming and repeating: entries are written and time passes before an
\* operation starts; the operation runs alone, may be stopped by a store
\* error, and is invoked again.
ResumeSet == ~Running /\ \E id \in Keys, ttl \in SweepTtls : set(id, [data |-> "a"], User1, ttl)
ResumeNext == ResumeSet \/ (~Running /\ Tick) \/ EngineCall \/ deleteExpiredCacheEntry \/ queryGet \/ batchCommit \/ storeError \/ reinvoke
SpecResume == Init /\ [][ResumeNext]_vars

\* The Invalidator beside concurrent callers.  Entries are written and time
\* passes before the call; while the invalidate is running, set, get and the
\* eviction deletes go on for the keys other than TargetKey, so that the
\* entry at TargetKey stays as it was when the call began unless the call
\* deletes it.
TargetKey == 2
ConcurrentEntities == {User1, PostAndUser}
ConcurrentLists == {<<Entity("User", NumId(1))>>, <<Entity("User#0", NumId(0))>>, <<Entity("User", NoId), Entity("Comment", NoId), Entity("Post", NoId)>>}
ConcurrentSet == \E id \in Keys, entities \in ConcurrentEntities, ttl \in SweepTtls : (Running => (id # TargetKey /\ ~ttl.finite)) /\ set(id, [data |-> "a"], entities, ttl)
ConcurrentGet == \E id \in Keys \ {TargetKey} : Running /\ get(id)
ConcurrentDeleteCommit == \E id \in Keys \ {TargetKey} : Running /\ deleteCommit(id)
ConcurrentCall == \E entities \in ConcurrentLists : invalidate(entities)
ConcurrentNext == ConcurrentSet \/ ConcurrentGet \/ ConcurrentDeleteCommit \/ (~Running /\ Tick) \/ ConcurrentCall \/ queryGet \/ batchCommit
SpecConcurrent == Init /\ [][ConcurrentNext]_vars

\* get beside the Sweeper.  Entries are written, time passes and eviction
\* deletes commit while no sweep is running; get runs while a sweep holds a
\* page it has fetched, so that a get reads a key at the very instant, and on
\* the very store, of a page query of the sweep.
ExpirySet == ~Running /\ \E id \in Keys, ttl \in SweepTtls : set(id, [data |-> "a"], User1, ttl)
ExpiryGet == call.pc = "commit" /\ \E id \in Keys : get(id)
ExpiryDeleteCommit == ~Running /\ \E id \in Keys : deleteCommit(id)
ExpiryNext == ExpirySet \/ ExpiryGet \/ ExpiryDeleteCommit \/ (~Running /\ Tick) \/ deleteExpiredCacheEntry \/ queryGet \/ batchCommit
SpecExpiry == Init /\ [][ExpiryNext]_vars

\* Every operation together.
Next == StoreNext \/ InvNext \/ SweepNext
Spec == Init /\ [][Next]_vars

\* ------------------------------------------------------------------ properties

\* An invalidate call has just returned successfully and no set, get or
\* eviction ran since it was called.
InvalidateReturned == call.op = "invalidate" /\ call.status = "resolved" /\ ~interfered

\* A deleteExpiredCacheEntry call has just returned successfully and no set,
\* get or eviction ran since it was called.
SweepReturned == call.op = "sweep" /\ call.status = "resolved" /\ ~interfered

\* The selector has no id at all (a broad selector).
IdLess(selector) == selector.id.kind = "undefined"

\* The entry matches the selector as the Selector definition has it: a broad
\* selector by its typename, a selector that carries an id by its token.
SelectorMatches(doc, selector) == IF IdLess(selector) THEN selector.typename \in Range(doc.typenames) ELSE buildEntityId(selector.typename, selector.id) \in Range(doc.entityIds)

\* C1: when invalidate(selectors) has returned successfully with nothing else
\* running since the call, no stored entry has in its typenames the typename
\* of an id-less selector of the list.
C1_TypenameInvalidation == InvalidateReturned => \A k \in Keys : \A i \in 1..Len(call.entities) : (store[k].exists /\ IdLess(call.entities[i])) => call.entities[i].typename \notin Range(store[k].typenames)

\* C1 witness: a call with an id-less selector returned after deleting an
\* entry, and another entry is still stored.
C1_Witness == InvalidateReturned /\ call.deleted # {} /\ (\E i \in 1..Len(call.entities) : IdLess(call.entities[i])) /\ (\E k \in Keys : store[k].exists)

\* C2: when invalidate(selectors) has returned successfully with nothing else
\* running since the call, no stored entry has in its entityIds the token
\* buildEntityId(typename, id) of a selector {typename, id} of the list, for
\* ids of type string or number.
C2_EntityInvalidation == InvalidateReturned => \A k \in Keys : \A i \in 1..Len(call.entities) : (store[k].exists /\ ~IdLess(call.entities[i])) => buildEntityId(call.entities[i].typename, call.entities[i].id) \notin Range(store[k].entityIds)

\* C3: a page delete of invalidate changes no entry that matches none of the
\* call's selectors.
C3_InvalidateFrame == [][(call.op = "invalidate" /\ call.pc = "commit" /\ call' # call /\ ~interfered) => \A k \in Keys : (store[k].exists /\ \A i \in 1..Len(call.entities) : ~SelectorMatches(store[k], call.entities[i])) => store'[k] = store[k]]_vars

\* C4: when deleteExpiredCacheEntry() has returned successfully with nothing
\* else running since the call, no stored entry has an expireAt strictly
\* before the instant of the call.
C4_SweepRemoval == SweepReturned => \A k \in Keys : (store[k].exists /\ ~store[k].expireAt.null) => ~(fromFirestore(store[k]).expireAt.ms < call.at)

\* C5: a page delete of deleteExpiredCacheEntry changes no entry without
\* expireAt and no entry whose expireAt is at or after the instant of the call.
C5_SweepFrame == [][(call.op = "sweep" /\ call.pc = "commit" /\ call' # call /\ ~interfered) => \A k \in Keys : (store[k].exists /\ (store[k].expireAt.null \/ fromFirestore(store[k]).expireAt.ms >= call.at)) => store'[k] = store[k]]_vars

\* C5 witness: a sweep returned after deleting an entry, while an entry with
\* no expireAt and an entry expiring exactly at the instant of the call are
\* still stored.
C5_Witness == SweepReturned /\ call.deleted # {} /\ (\E k \in Keys : store[k].exists /\ store[k].expireAt.null) /\ (\E k \in Keys : store[k].exists /\ ~store[k].expireAt.null /\ fromFirestore(store[k]).expireAt.ms = call.at)

\* C8: once the store has raised an error on a page query or a batch commit
\* of a call, the call has rejected with it: it is neither resolved nor left
\* pending with no step of it to come.
C8_ErrorPropagation == call.failed => call.status = "rejected"

\* C9: when invalidate has returned successfully with nothing else running
\* since the call, no stored entry is matched by any membership query of the
\* call, however many pages the matching entries filled.
C9_Pagination == InvalidateReturned => LET ix == invalidateIndex(call.entities, <<>>, <<>>) IN \A k \in Keys : store[k].exists => (Range(store[k].typenames) \cap Range(ix.typenames) = {} /\ Range(store[k].entityIds) \cap Range(ix.entityIds) = {})

\* C9 witness: one call deleted more entries than a page holds.
C9_Witness == InvalidateReturned /\ Cardinality(call.deleted) > PageSize

C10_WitnessTokens == InvalidateReturned /\ call.deleted # {} /\ Len(invalidateIndex(call.entities, <<>>, <<>>).entityIds) > ChunkSize

\* The ttl of the latest set on the id has not elapsed at instant t.
NotElapsed(id, t) == lastSet[id].elapses.null \/ t < lastSet[id].elapses.ms

\* C6: a get of a key whose latest set (no other set on the key after it, no
\* invalidate and no sweep at all) was less than ttl ago returns the payload
\* of that set.
C6_RoundTrip == (ret.op = "get" /\ lastSet[ret.id].called /\ NotElapsed(ret.id, now)) => ret.value = lastSet[ret.id].data

\* The document get has just read has an expireAt at or before now.
ReadExpired == ret.op = "get" /\ store[ret.id].exists /\ ~store[ret.id].expireAt.null /\ fromFirestore(store[ret.id]).expireAt.ms <= now

\* C7: a get that reads an entry whose expireAt is at or before now returns a
\* miss and issues the eviction delete, and an entry with an eviction delete
\* issued is eventually absent from the store.
C7_ExpiryOnRead == [](ReadExpired => (ret.value = Undefined /\ ret.id \in deleting)) /\ \A k \in StoreKeys : (k \in deleting) ~> ~store[k].exists

\* C7 witness: get has just read an entry expiring exactly now, returned a
\* miss and issued the delete.
C7_Witness == ReadExpired /\ fromFirestore(store[ret.id]).expireAt.ms = now /\ ret.value = Undefined /\ ret.id \in deleting

\* The typenames of the id-less selectors of the list.
BroadTypenames(entities) == {entities[i].typename : i \in {j \in 1..Len(entities) : IdLess(entities[j])}}

\* The list without the selectors that carry an id and whose typename an
\* id-less selector of the list names.
WithoutSubsumed(entities) == SelectSeq(entities, LAMBDA e : IdLess(e) \/ e.typename \notin BroadTypenames(entities))

\* The entry is matched by a membership query over the typenames or the
\* tokens of the index.
MatchesIndex(doc, ix) == doc.exists /\ (Range(doc.typenames) \cap Range(ix.typenames) # {} \/ Range(doc.entityIds) \cap Range(ix.entityIds) # {})

\* C11: invalidate of a list that holds {typename: T} together with
\* {typename: T, id} ends in the store that invalidate of the list without
\* those narrow selectors ends in: every entry a page delete of the call
\* removes is matched by a query of the shorter list, and when the call has
\* returned no entry matched by a query of the shorter list is left.
C11_Subsumption == /\ [][(call.op = "invalidate" /\ call.pc = "commit" /\ call' # call /\ ~interfered) => \A k \in Keys : (store[k].exists /\ ~store'[k].exists) => MatchesIndex(store[k], invalidateIndex(WithoutSubsumed(call.entities), <<>>, <<>>))]_vars
                   /\ [](InvalidateReturned => \A k \in Keys : ~MatchesIndex(store[k], invalidateIndex(WithoutSubsumed(call.entities), <<>>, <<>>)))

\* The step is a set on the key.
SetOn(k) == lastSet'[k] # lastSet[k] /\ lastSet'[k].called

\* The step is a page delete of the call in progress.
PageDelete(op) == call.op = op /\ call.pc = "commit" /\ call' # call

\* C12: an entry stored with no expireAt (set with a non-finite ttl) is
\* returned by every get that reads it, and no step changes or removes it but
\* a set on its key or a page delete of invalidate: not the eviction delete
\* of get, not deleteExpiredCacheEntry.
C12_InfiniteTtl == /\ []((ret.op = "get" /\ store[ret.id].exists /\ store[ret.id].expireAt.null) => (ret.value = JSONparse(store[ret.id].payload) /\ ~ret.evict))
                   /\ [][\A k \in Keys : (store[k].exists /\ store[k].expireAt.null /\ store'[k] # store[k]) => (SetOn(k) \/ PageDelete("invalidate"))]_vars

\* The entity list names the selector: its typename for an id-less selector,
\* the pair of its typename and id otherwise.
References(entities, selector) == \E i \in 1..Len(entities) : entities[i].typename = selector.typename /\ (IdLess(selector) \/ entities[i].id = selector.id)

\* The document under each key is, field by field, the entry of the latest
\* set on the key.
LatestSetStored == \A k \in Keys : (lastSet[k].called /\ store[k].exists) => /\ store[k].payload = JSONstringify(lastSet[k].data)
                                                                              /\ store[k].expireAt = TimestampFromDate(lastSet[k].elapses)
                                                                              /\ store[k].typenames = setIndex(lastSet[k].entities, <<>>, <<>>).typenames
                                                                              /\ store[k].entityIds = setIndex(lastSet[k].entities, <<>>, <<>>).entityIds

\* C13: the entry under a key is exactly the entry of the latest set on it,
\* whatever was set on the key before, and a page delete of invalidate leaves
\* it alone when the entities of that latest set name none of the call's
\* selectors (selectors only an earlier set on the key referenced).
C13_LastWriteWins == /\ []LatestSetStored
                     /\ [][(PageDelete("invalidate") /\ ~interfered) => \A k \in Keys : (store[k].exists /\ lastSet[k].called /\ \A i \in 1..Len(call.entities) : ~References(lastSet[k].entities, call.entities[i])) => store'[k] = store[k]]_vars

\* C14: a get of a key with no document under it returns undefined, issues
\* no delete and changes nothing in the store.
C14_MissIsNoError == [][(ret'.op = "get" /\ ~store[ret'.id].exists) => (ret'.value = Undefined /\ ~ret'.evict /\ store' = store /\ deleting' = deleting)]_vars

\* C14 witness: get has just returned a miss for a key with no document,
\* while another key holds an entry.
C14_Witness == ret.op = "get" /\ ~store[ret.id].exists /\ ret.value = Undefined /\ ret.id \notin deleting /\ (\E k \in StoreKeys : store[k].exists)

\* The collection path a cache created with the parameters is to use: the
\* one given, "responseCache" when none is given.
OwnPath(params) == IF params.collectionPath.given THEN params.collectionPath.path ELSE "responseCache"

\* C15: a step of a cache created with collection path P creates, changes
\* or deletes documents of collection P only, and what its get returns is the
\* payload of the document of collection P.
C15_CollectionIsolation == /\ [][\A p \in CollectionPaths : db'[p] # db[p] => p = OwnPath(cache')]_vars
                           /\ []((ret.op = "get" /\ ret.value # Undefined) => (db[OwnPath(cache)][ret.id].exists /\ ret.value = JSONparse(db[OwnPath(cache)][ret.id].payload)))

\* C15 witness: the get of the cache created with "_responseCache_" has just
\* evicted the expired entry of its collection, and the default collection
\* and the subcollection still hold their entries under the same document id.
C15_Witness == /\ cache = [collectionPath |-> CollectionPath("_responseCache_")]
               /\ ret.op = "get" /\ ret.evict
               /\ ~db["_responseCache_"][ret.id].exists
               /\ db["responseCache"][ret.id].exists /\ db["internal/cache/responseCache"][ret.id].exists

\* The typenames of BuilderTypenames that do not hold the separator "#".
PlainTypenames == {"User", "Post"}

\* C16: no two distinct (typename, id) pairs among the selectors of a call
\* get the same token from the default builder.
C16_Injective == call.op = "invalidate" => \A i \in 1..Len(call.entities) : \A j \in 1..Len(call.entities) : call.entities[i] # call.entities[j] => defaultBuildEntityId(call.entities[i].typename, call.entities[i].id) # defaultBuildEntityId(call.entities[j].typename, call.entities[j].id)

\* C16 as amended: two pairs whose typenames do not hold "#" get the same
\* token from the default builder only when their typenames are equal and
\* their ids have the same string form (1 and "1").
C16_InjectivePlain == call.op = "invalidate" => \A i \in 1..Len(call.entities) : \A j \in 1..Len(call.entities) : (call.entities[i].typename \in PlainTypenames /\ call.entities[j].typename \in PlainTypenames /\ defaultBuildEntityId(call.entities[i].typename, call.entities[i].id) = defaultBuildEntityId(call.entities[j].typename, call.entities[j].id)) => (call.entities[i].typename = call.entities[j].typename /\ stringOf(call.entities[i].id) = stringOf(call.entities[j].id))

\* C16 witness: invalidate has built the tokens of two selectors of one
\* plain typename whose ids differ, and queries the two different tokens.
C16_Witness == /\ call.op = "invalidate" /\ call.query.field = "entityIds" /\ Len(call.query.values) = 2
               /\ call.entities[1].typename = call.entities[2].typename /\ call.entities[1].typename \in PlainTypenames
               /\ stringOf(call.entities[1].id) # stringOf(call.entities[2].id)
               /\ call.query.values[1] # call.query.values[2]

\* C17: the token set stores for an entity and the token invalidate queries
\* for a selector is the typename, then "#", then the id as a string:
\* ('User', 1) gives "User#1", ('Post', "1") gives "Post#1".
C17_DefaultBuilder == /\ \A k \in Keys : (store[k].exists /\ lastSet[k].called /\ Len(lastSet[k].entities) = 1) => store[k].entityIds = <<lastSet[k].entities[1].typename \o "#" \o stringOf(lastSet[k].entities[1].id)>>
                      /\ \A k \in Keys : (store[k].exists /\ lastSet[k].called /\ lastSet[k].entities = <<Entity("User", NumId(1))>>) => store[k].entityIds = <<"User#1">>
                      /\ (call.op = "invalidate" /\ call.query.field = "entityIds" /\ call.entities = <<Entity("User", NumId(1)), Entity("Post", StrId("1"))>>) => call.query.values = <<"User#1", "Post#1">>

\* C17 witness: set has stored the entity ('User', 1) and invalidate is
\* querying the tokens of ('User', 1) and ('Post', "1").
C17_Witness == /\ store[1].exists /\ lastSet[1].entities = <<Entity("User", NumId(1))>> /\ store[1].entityIds = <<"User#1">>
               /\ call.op = "invalidate" /\ call.query.field = "entityIds" /\ call.query.values = <<"User#1", "Post#1">>

\* The sequence holds no element twice.
NoDuplicate(s) == Cardinality(Range(s)) = Len(s)

\* C18: in every stored entry, the typename of each entity of the set whose
\* token is in entityIds is in typenames, and neither typenames nor
\* entityIds holds an element twice.
C18_IndexInvariant == \A k \in Keys : (store[k].exists /\ lastSet[k].called) => /\ \A i \in 1..Len(lastSet[k].entities) : (~IdLess(lastSet[k].entities[i]) /\ buildEntityId(lastSet[k].entities[i].typename, lastSet[k].entities[i].id) \in Range(store[k].entityIds)) => lastSet[k].entities[i].typename \in Range(store[k].typenames)
                                                                                 /\ NoDuplicate(store[k].typenames)
                                                                                 /\ NoDuplicate(store[k].entityIds)

\* C18 witness: an entry stored from a list that repeats an entity with an
\* id and names a second typename holds one token and two typenames.
C18_Witness == /\ store[1].exists /\ Len(lastSet[1].entities) = 3
               /\ lastSet[1].entities[1] = lastSet[1].entities[2] /\ ~IdLess(lastSet[1].entities[1])
               /\ Len(store[1].entityIds) = 1 /\ Len(store[1].typenames) = 2

\* C19: the entityIds of a stored entry holds, once each, the tokens
\* buildEntityId(typename, id) of exactly the entities of the set that carry
\* an id, whatever number or string the id is.
C19_EntityIndex == \A k \in Keys : (store[k].exists /\ lastSet[k].called) => /\ Range(store[k].entityIds) = {buildEntityId(lastSet[k].entities[i].typename, lastSet[k].entities[i].id) : i \in {j \in 1..Len(lastSet[k].entities) : ~IdLess(lastSet[k].entities[j])}}
                                                                              /\ NoDuplicate(store[k].entityIds)

\* C20: an entry in the store is changed or removed only by a set on its
\* key, by a page delete of invalidate or of deleteExpiredCacheEntry, or by
\* the eviction delete of a get of its key that found it expired; the passing
\* of time and every other step leave it as it is.
C20_NoAutomaticRemoval == [][\A k \in Keys : (store[k].exists /\ store'[k] # store[k]) => \/ SetOn(k)
                                                                                             \/ PageDelete("invalidate")
                                                                                             \/ PageDelete("sweep")
                                                                                             \/ (~store'[k].exists /\ k \in deleting /\ getExpired(fromFirestore(store[k]).expireAt, now))]_vars

\* C21: while an invalidate call queries entity tokens, no value of the
\* query is the token of a selector {typename: T, id} of the list when the
\* list holds the id-less selector {typename: T}, before or after it.
C21_NarrowSkipped == (call.op = "invalidate" /\ call.query.field = "entityIds") => \A i \in 1..Len(call.entities) : (~IdLess(call.entities[i]) /\ call.entities[i].typename \in BroadTypenames(call.entities)) => buildEntityId(call.entities[i].typename, call.entities[i].id) \notin Range(call.query.values)

\* The concatenation of a sequence of chunks.
RECURSIVE Flatten(_)
Flatten(chunks) == IF chunks = <<>> THEN <<>> ELSE Head(chunks) \o Flatten(Tail(chunks))

\* The values an invalidate call has still to query, in order: those of the
\* query in progress, then the typename chunks and the token chunks to come.
ToQuery(c) == (IF c.pc \in {"get", "commit"} THEN c.query.values ELSE <<>>) \o Flatten(c.typenames) \o Flatten(c.entityIds)

\* The distinct typenames, then the distinct tokens, of the call.
AllValues(c) == invalidateIndex(c.entities, <<>>, <<>>).typenames \o invalidateIndex(c.entities, <<>>, <<>>).entityIds

\* Every query and every chunk to come has between one and ChunkSize values,
\* all of the query's own phase.
ChunkSizes == (call.op = "invalidate" /\ Running) =>
                 /\ Len(call.query.values) \in 1..ChunkSize
                 /\ \A i \in 1..Len(call.typenames) : Len(call.typenames[i]) \in 1..ChunkSize
                 /\ \A i \in 1..Len(call.entityIds) : Len(call.entityIds[i]) \in 1..ChunkSize
                 /\ (call.query.field = "typenames" => Range(call.query.values) \subseteq Range(invalidateIndex(call.entities, <<>>, <<>>).typenames))
                 /\ (call.query.field = "entityIds" => (call.typenames = <<>> /\ Range(call.query.values) \subseteq Range(invalidateIndex(call.entities, <<>>, <<>>).entityIds)))

\* C22: every membership query of invalidate carries at most ChunkSize
\* values, and the chunks of a phase partition its values: the first query
\* starts with every distinct typename and token of the call still to
\* query, each query takes its own values off the front of what is left, and
\* nothing is left when the call has resolved.
C22_Chunking == /\ []ChunkSizes
                /\ [][(call'.op = "invalidate" /\ call' # call /\ call'.status # "rejected" /\ call'.pc # "lost") => ToQuery(call') = IF call.op # "invalidate" \/ ~Running THEN AllValues(call')
                                                                                                                                      ELSE IF call'.query = call.query THEN ToQuery(call)
                                                                                                                                      ELSE SubSeq(ToQuery(call), Len(call.query.values) + 1, Len(ToQuery(call)))]_vars

\* C22 witness: a call with more typenames than a chunk holds is running the
\* query of its second typename chunk.
C22_Witness == /\ call.op = "invalidate" /\ Running /\ call.query.field = "typenames"
               /\ Len(invalidateIndex(call.entities, <<>>, <<>>).typenames) > ChunkSize
               /\ ToQuery(call) = <<invalidateIndex(call.entities, <<>>, <<>>).typenames[ChunkSize + 1]>>

\* The typenames and the tokens whose chunks the call has finished with.
DoneTypenames(c) == LET tn == invalidateIndex(c.entities, <<>>, <<>>).typenames
                        n == Len(AllValues(c)) - Len(ToQuery(c))
                    IN SubSeq(tn, 1, IF n < Len(tn) THEN n ELSE Len(tn))
DoneTokens(c) == LET tn == invalidateIndex(c.entities, <<>>, <<>>).typenames
                     n == Len(AllValues(c)) - Len(ToQuery(c))
                 IN SubSeq(invalidateIndex(c.entities, <<>>, <<>>).entityIds, 1, IF n < Len(tn) THEN 0 ELSE n - Len(tn))

\* C23: invalidate issues the query of the next chunk, or returns, only in
\* the step in which the page query of the chunk in progress comes back
\* empty; no token query is in progress while a typename chunk is still to
\* come; a call that has returned has no chunk left; and, with nothing else
\* running, no stored entry matches a value of a chunk the call has
\* finished with.
C23_Ordering == /\ [][(call.op = "invalidate" /\ Running /\ (call'.query # call.query \/ call'.status = "resolved")) => (call.pc = "get" /\ Len(queryGetDocs(call.query, call.after)) = 0)]_vars
                /\ []((call.op = "invalidate" /\ Running /\ call.query.field = "entityIds") => call.typenames = <<>>)
                /\ []((call.op = "invalidate" /\ call.status = "resolved") => (ToQuery(call) = <<>> /\ call.snapshot = <<>>))
                /\ []((call.op = "invalidate" /\ ~interfered /\ (Running \/ call.status = "resolved")) => \A k \in Keys : store[k].exists => (Range(store[k].typenames) \cap Range(DoneTypenames(call)) = {} /\ Range(store[k].entityIds) \cap Range(DoneTokens(call)) = {}))

\* C23 witness: with nothing else running, a call has deleted the entries of
\* its typename chunk and is querying a token that a stored entry holds.
C23_Witness == /\ call.op = "invalidate" /\ Running /\ ~interfered /\ call.query.field = "entityIds"
               /\ call.deleted # {} /\ DoneTypenames(call) # <<>>
               /\ \E k \in Keys : Matches(store[k], call.query)

\* The ids of the page the call holds.
PageIds(c) == {c.snapshot[i].id : i \in 1..Len(c.snapshot)}

\* The page element lies after the cursor in the order of the query: by
\* document id for invalidate, by expireAt for the sweep.
LocatedAfter(c, s) == IF c.op = "invalidate" THEN s.id > c.after.id ELSE s.data.expireAt.ms > c.after.date.ms

\* The cursor is the sort key of the element.
CursorAt(c, s) == c.after.defined /\ (IF c.op = "invalidate" THEN c.after.id = s.id ELSE c.after.date = s.data.expireAt)

\* C24: a page holds between one and PageSize entries, all after the
\* cursor; the step that deletes it removes all of them at once and moves
\* the cursor to the sort key of its last entry; the engine is done with a
\* query exactly in the step where its page query comes back empty; and
\* every call that is pending is eventually resolved.
C24_EngineTermination == /\ [](call.pc = "commit" => (Len(call.snapshot) \in 1..PageSize /\ (call.after.defined => \A i \in 1..Len(call.snapshot) : LocatedAfter(call, call.snapshot[i]))))
                         /\ [][(call.pc = "commit" /\ call' # call) => ((\A k \in PageIds(call) : ~store'[k].exists) /\ call'.pc = "get" /\ call'.query = call.query /\ CursorAt(call', call.snapshot[Len(call.snapshot)]))]_vars
                         /\ [][(call.pc = "get" /\ call' # call) => ((Len(queryGetDocs(call.query, call.after)) = 0) <=> (call'.query # call.query \/ call'.status = "resolved"))]_vars
                         /\ ((call.status = "pending") ~> (call.status = "resolved"))

\* C24 witness: the engine has deleted a full first page, moved the cursor,
\* and an entry after the cursor is still to be fetched.
C24_Witness == /\ call.pc = "get" /\ call.after.defined /\ Cardinality(call.deleted) = PageSize
               /\ \E k \in Keys : Matches(store[k], call.query) /\ startAfter(k, call.query, call.after)

\* C25: deletion is resumable and idempotent.  An operation invoked again with
\* nothing written in between finds nothing to delete when the run before it
\* was complete, and, when it returns, has left no entry that still matches
\* (its selectors for invalidate, expiry before the call for the sweep).
C25_Resumable == /\ (call.rerun = "repeated" => call.pc # "commit")
                 /\ ((call.rerun # "no" /\ call.status = "resolved") => \A k \in Keys : ~(IF call.op = "invalidate" THEN MatchesIndex(store[k], invalidateIndex(call.entities, <<>>, <<>>)) ELSE (store[k].exists /\ ~store[k].expireAt.null /\ fromFirestore(store[k]).expireAt.ms < call.at)))

\* What a get of a document in state `doc` returns at time t.
getReturns(doc, t) == IF doc.exists /\ ~getExpired(fromFirestore(doc).expireAt, t) THEN JSONparse(doc.payload) ELSE Undefined

\* C26: set and get touch one key.  A set on k leaves every other document
\* as it was, issues no delete, and does not change what a get on another key
\* returns; a get leaves the store as it is, returns what the document at its
\* own key determines, and issues a delete for no key but its own; a document
\* disappears only through the delete issued for its own key, which changes
\* no other document.  Hence a set and a get on different keys commute.
C26_KeyFrame == [][/\ \A k \in Keys : SetOn(k) => (deleting' = deleting /\ \A j \in Keys \ {k} : (store'[j] = store[j] /\ getReturns(store'[j], now') = getReturns(store[j], now)))
                   /\ ((ret'.op = "get") => (store' = store /\ ret'.value = getReturns(store[ret'.id], now) /\ deleting \subseteq deleting' /\ deleting' \subseteq deleting \cup {ret'.id}))
                   /\ \A k \in Keys : (store[k].exists /\ ~store'[k].exists) => (k \in deleting /\ deleting' = deleting \ {k} /\ \A j \in Keys \ {k} : store'[j] = store[j])]_vars

\* A get has just evicted one key while another key holds the entry a set
\* gave it, itself expired and left alone.
C26_Witness == ret.op = "get" /\ ret.evict /\ ret.id \in deleting /\ \E j \in Keys \ {ret.id} : lastSet[j].called /\ store[j].exists /\ j \notin deleting /\ getExpired(fromFirestore(store[j]).expireAt, now)

\* The scan of the running invalidate has passed key k: the entry there
\* matches the call, but no query still to come asks for any of its values,
\* it is not in a page waiting to be deleted, and the cursor of the query in
\* progress is at or beyond k if that query asks for it.
ScanPassed(k) == /\ call.op = "invalidate"
                 /\ Running
                 /\ MatchesIndex(store[k], invalidateIndex(call.entities, <<>>, <<>>))
                 /\ Range(store[k].typenames) \cap Range(Flatten(call.typenames)) = {}
                 /\ Range(store[k].entityIds) \cap Range(Flatten(call.entityIds)) = {}
                 /\ k \notin PageIds(call)
                 /\ (Matches(store[k], call.query) => (call.after.defined /\ k <= call.after.id))

\* C27: an entry written behind the scan survives the call.  Once the scan
\* has passed the key of a matching entry, no step of the call changes that
\* entry, and the scan stays past it until the call returns.
C27_BehindScan == [][(call' # call /\ call.op = "invalidate" /\ Running) => \A k \in Keys : ScanPassed(k) => (store'[k] = store[k] /\ (call'.pc \in {"get", "commit"} => ScanPassed(k)'))]_vars

\* An invalidate has returned successfully, having deleted entries, and an
\* entry that matches it, set while it ran, is in the store.
C27_Witness == call.op = "invalidate" /\ call.status = "resolved" /\ interfered /\ call.deleted # {} /\ \E k \in Keys : lastSet[k].called /\ MatchesIndex(store[k], invalidateIndex(call.entities, <<>>, <<>>))

\* C28: invalidate is complete under concurrency.  When an invalidate has
\* returned successfully, the entry at a key that no other operation touched
\* during the call matches none of the call's selectors, whatever set, get
\* and the eviction deletes did to the other keys meanwhile.
C28_CompleteUnderConcurrency == (call.op = "invalidate" /\ call.status = "resolved") => ~(store[TargetKey].exists /\ \E i \in 1..Len(call.entities) : SelectorMatches(store[TargetKey], call.entities[i]))

\* C29: lazy eviction removes only expired data.  Whenever the delete that a
\* get issued commits and takes a document out of the store, that document
\* is expired at that moment.
C29_EvictsOnlyExpired == [][\A k \in Keys : (k \in deleting /\ deleting' = deleting \ {k} /\ store[k].exists /\ ~store'[k].exists) => getExpired(fromFirestore(store[k]).expireAt, now)]_vars

\* C30: bulk deletes remove only matching data.  Every document that a page
\* delete takes out of the store is, at that moment, expired before the time
\* of the call (for the sweep) or a match of the values the call collected
\* from its selectors (for invalidate).
C30_DeletesOnlyMatching == [][\A k \in Keys : (store[k].exists /\ ~store'[k].exists) => /\ (PageDelete("sweep") => (~store[k].expireAt.null /\ fromFirestore(store[k]).expireAt.ms < call.at))
                                                                                        /\ (PageDelete("invalidate") => MatchesIndex(store[k], invalidateIndex(call.entities, <<>>, <<>>)))]_vars

\* A get has just read a stored entry while a sweep called at this instant
\* holds its first page, which the page limit did not cut short: the page
\* lists every entry the sweep deletes, and the store and the clock are as
\* they were when the page was fetched.
ReadBesideSweep == /\ ret.op = "get"
                   /\ store[ret.id].exists
                   /\ call.op = "sweep"
                   /\ call.pc = "commit"
                   /\ ~call.after.defined
                   /\ call.at = now
                   /\ Len(call.snapshot) < PageSize

\* The entry that the get read expires at exactly this instant.
AtExpiry == ~store[ret.id].expireAt.null /\ fromFirestore(store[ret.id]).expireAt.ms = now

C32_FailedChunkStops == [][(call.op = "invalidate" /\ call' # call) => /\ ((Running /\ call.chained /\ call'.failed) => (call'.status = "rejected" /\ call'.pc = "settled" /\ store' = store /\ call'.query = call.query /\ call'.typenames = call.typenames /\ call'.entityIds = call.entityIds /\ call'.deleted = call.deleted))
                                                                        /\ (call.status = "rejected" => (call.pc = "settled" /\ ~call'.failed /\ call'.deleted = {} /\ call'.status \in {"none", "pending"}))
                                                                        /\ ((Running /\ ~interfered) => \A k \in Keys : (store[k].exists /\ ~Matches(store[k], call.query)) => store'[k] = store[k])]_vars

\* An invalidate has been rejected in its typename phase with a token chunk
\* still to come, and an entry that only that chunk matches is in the store.
C32_Witness == /\ call.op = "invalidate"
               /\ call.status = "rejected"
               /\ ~interfered
               /\ call.query.field = "typenames"
               /\ call.entityIds # <<>>
               /\ \E k \in Keys : store[k].exists /\ Range(store[k].entityIds) \cap Range(Flatten(call.entityIds)) # {} /\ Range(store[k].typenames) \cap Range(invalidateIndex(call.entities, <<>>, <<>>).typenames) = {}

====
